---- MODULE Spec2Model ----
(***************************************************************************)
(* The authorization and invariant-enforcement layer of the complaint      *)
(* tracker: the tables, row-level-security policies and triggers of the    *)
(* two SQL migrations, driven by the statements an authenticated client    *)
(* can send (the INSERT of Landing.tsx, UPDATEs, SELECTs).                 *)
(*                                                                         *)
(* A statement is one action.  The INSERT into complaints is three steps:  *)
(* its transaction begins, which fixes NOW(); the statement runs, and its  *)
(* BEFORE INSERT trigger counts the committed rows; the transaction        *)
(* commits.  Other transactions begin and commit in between.               *)
(***************************************************************************)
EXTENDS Integers, Sequences, FiniteSets, TLC

VARIABLES
    profiles,            \* public.profiles: id -> row
    user_roles,          \* public.user_roles: set of <<user_id, role>>
    complaints,          \* public.complaints: id -> row
    complaint_timeline,  \* public.complaint_timeline: sequence of rows, in insertion order
    identity_lockers,    \* public.identity_lockers: complaint_id -> row
    txn,                 \* per connection: the INSERT transaction in flight
    resp                 \* the response to the last completed statement

vars == <<profiles, user_roles, complaints, complaint_timeline, identity_lockers, txn, resp>>

tables == <<profiles, user_roles, complaints, complaint_timeline, identity_lockers>>

-----------------------------------------------------------------------------
(* Bounds of the model *)

\* rows of public.complaints in the submission model
MaxComplaints == 4

\* rows of public.complaints in the access-control model
MaxRows == 1

\* rows of public.complaints in the creation model and in the list model
MaxCreated == 3

-----------------------------------------------------------------------------
(* Schema *)

\* the principals with a row in public.profiles
Users == {"u1", "u2", "u3"}

user_role == {"student", "staff", "admin"}

complaint_status == {"submitted", "in_progress", "resolved"}

\* SQL NULL in a uuid or timestamp column
Null == "null"

\* SQL NULL in the integer column rating
NullRating == 0

\* the value of NOW() and of any timestamp a client supplies
SomeTime == "t"

\* the value of NOW() in a later statement
OtherTime == "t2"

\* database connections, each running one transaction at a time
Sessions == {"c1", "c2"}

\* limit of active complaints in check_active_complaint_limit
ActiveLimit == 3

\* the row an INSERT builds: the columns the client gives, the column defaults for the rest
NewRow(student_id, is_anonymous, status, staff_assigned, rating, resolved_at, withdrawn_at) ==
    [ id             |-> 0,
      student_id     |-> student_id,
      is_anonymous   |-> is_anonymous,
      status         |-> status,
      staff_assigned |-> staff_assigned,
      rating         |-> rating,
      created_at     |-> 0,
      resolved_at    |-> resolved_at,
      withdrawn_at   |-> withdrawn_at ]

\* the insert of the submission form: student_id, is_anonymous and status 'submitted'
handleSubmit(student_id, is_anonymous) ==
    NewRow(student_id, is_anonymous, "submitted", Null, NullRating, Null, Null)

\* CHECK (rating >= 1 AND rating <= 5); a NULL rating passes
rating_check(r) == r.rating = NullRating \/ (r.rating >= 1 /\ r.rating <= 5)

\* the columns of public.profiles: those of CREATE TABLE, without role, which the
\* second migration drops
profiles_columns == {"id", "name", "email", "phone", "hostel", "created_at", "updated_at"}

\* the columns the INSERT of handle_new_user names
handle_new_user_columns == {"id", "name", "email", "role"}

\* the row of auth.users a signup inserts: its id, and the name of its metadata or Null
NewUser(id, name) == [ id |-> id, name |-> name ]

\* the profile handle_new_user writes for the new row of auth.users:
\* COALESCE(NEW.raw_user_meta_data->>'name', 'Student')
handle_new_user(NEWROW) ==
    [ id         |-> NEWROW.id,
      name       |-> IF NEWROW.name # Null THEN NEWROW.name ELSE "Student",
      updated_at |-> SomeTime ]

\* BEFORE UPDATE ON profiles (update_profiles_updated_at)
update_updated_at_column(NEWROW) == [NEWROW EXCEPT !.updated_at = OtherTime]

\* policies of public.profiles
UsersCanViewTheirOwnProfile(uid, r) == uid = r.id

UsersCanUpdateTheirOwnProfile(uid, r) == uid = r.id

-----------------------------------------------------------------------------
(* Role registry *)

\* has_role answering from the profile as well as from user_roles
has_role_or_profile(_user_id, _role) ==
    <<_user_id, _role>> \in user_roles \/ profiles[_user_id].name = _role

has_role(_user_id, _role) == <<_user_id, _role>> \in user_roles

-----------------------------------------------------------------------------
(* Row-level-security policies of public.complaints *)

StudentsCanViewTheirOwnComplaints(uid, r) == uid = r.student_id

StudentsCanCreateComplaints(uid, r) == uid = r.student_id

StudentsCanUpdateTheirOwnComplaints(uid, r) == uid = r.student_id

\* the staff SELECT policy without its has_role() test
StaffCanViewAssignedComplaints_without_role(uid, r) == r.staff_assigned = uid

StaffCanViewAssignedComplaints(uid, r) ==
    has_role(uid, "staff") /\ r.staff_assigned = uid

StaffCanUpdateAssignedComplaints(uid, r) ==
    has_role(uid, "staff") /\ r.staff_assigned = uid

AdminCanViewAllComplaints(uid, r) == has_role(uid, "admin")

AdminCanUpdateAllComplaints(uid, r) == has_role(uid, "admin")

\* permissive policies of one command are OR-ed
ComplaintsSelectUsing(uid, r) ==
    \/ StudentsCanViewTheirOwnComplaints(uid, r)
    \/ StaffCanViewAssignedComplaints(uid, r)
    \/ AdminCanViewAllComplaints(uid, r)

ComplaintsInsertCheck(uid, r) == StudentsCanCreateComplaints(uid, r)

ComplaintsUpdateUsing(uid, r) ==
    \/ StudentsCanUpdateTheirOwnComplaints(uid, r)
    \/ StaffCanUpdateAssignedComplaints(uid, r)
    \/ AdminCanUpdateAllComplaints(uid, r)

\* a policy without WITH CHECK checks the new row with its USING expression
ComplaintsUpdateCheck(uid, r) ==
    \/ StudentsCanUpdateTheirOwnComplaints(uid, r)
    \/ StaffCanUpdateAssignedComplaints(uid, r)
    \/ AdminCanUpdateAllComplaints(uid, r)

\* public.complaint_timeline has row-level security enabled and SELECT policies only:
\* without a policy for INSERT, no row passes
TimelineInsertCheck(uid, entry) == FALSE

\* the timeline opened to deletes of admins
TimelineDeleteUsing_admin(uid, entry) == has_role(uid, "admin")

\* no policy for UPDATE and none for DELETE on public.complaint_timeline
TimelineUpdateUsing(uid, entry) == FALSE

TimelineDeleteUsing(uid, entry) == FALSE

\* public.complaints has no policy for DELETE
ComplaintsDeleteUsing(uid, r) == FALSE

\* policies of public.user_roles: the SELECT policy, and the policy FOR ALL with
\* the same expression as USING and as WITH CHECK
UsersCanViewTheirOwnRoles(uid, row) == uid = row[1] \/ has_role(uid, "admin")

AdminsManageUserRoles(uid) == has_role(uid, "admin")

\* the locker policy opened to the staff role
AdminCanManageIdentityLockers_or_staff(uid) == has_role(uid, "admin") \/ has_role(uid, "staff")

\* policy of public.identity_lockers, FOR ALL
AdminCanManageIdentityLockers(uid) == has_role(uid, "admin")

-----------------------------------------------------------------------------
(* Triggers *)

\* check_active_complaint_limit with the test on withdrawn_at left out
check_active_complaint_limit_counts_withdrawn(NEWROW) ==
    LET active_count == Cardinality({ i \in DOMAIN complaints :
                            /\ complaints[i].student_id = NEWROW.student_id
                            /\ complaints[i].status # "resolved" })
    IN  active_count >= 3

\* BEFORE INSERT ON complaints: TRUE when the function raises
check_active_complaint_limit(NEWROW) ==
    LET active_count == Cardinality({ i \in DOMAIN complaints :
                            /\ complaints[i].student_id = NEWROW.student_id
                            /\ complaints[i].status # "resolved"
                            /\ complaints[i].withdrawn_at = Null })
    IN  active_count >= ActiveLimit

\* add_complaint_timeline without its INSERT
add_complaint_timeline_skipped(timeline, NEWROW) == timeline

\* AFTER INSERT ON complaints (on_complaint_created)
add_complaint_timeline(timeline, NEWROW) ==
    Append(timeline, [ complaint_id |-> NEWROW.id,
                       updated_by   |-> NEWROW.student_id,
                       message      |-> "Complaint submitted" ])

\* INSERT INTO identity_lockers ... ON CONFLICT (complaint_id) DO NOTHING
create_identity_locker(lockers, NEWROW) ==
    IF NEWROW.is_anonymous /\ NEWROW.id \notin DOMAIN lockers
    THEN lockers @@ (NEWROW.id :> [ complaint_id        |-> NEWROW.id,
                                 real_student_id     |-> NEWROW.student_id,
                                 reveal_status       |-> "not_revealed",
                                 reveal_requested_by |-> Null,
                                 revealed_at         |-> Null ])
    ELSE lockers

\* AFTER INSERT ON complaints WHEN (NEWROW.is_anonymous = true)
on_anonymous_complaint(lockers, NEWROW) ==
    IF NEWROW.is_anonymous = TRUE THEN create_identity_locker(lockers, NEWROW) ELSE lockers

-----------------------------------------------------------------------------
(* Reads *)

\* SELECT * FROM complaints, as uid, over a table: the rows the SELECT policies pass
SelectComplaints(uid, table) ==
    { table[i] : i \in { j \in DOMAIN table : ComplaintsSelectUsing(uid, table[j]) } }

\* a read that looks the row up before the policies, and answers a row it may not
\* show with its identifier alone
ReadComplaint_answers_forbidden(uid, id, table) ==
    { IF ComplaintsSelectUsing(uid, table[i])
      THEN table[i]
      ELSE [ handleSubmit(Null, FALSE) EXCEPT !.id = i ] :
        i \in { j \in DOMAIN table : j = id } }

\* SELECT * FROM complaints WHERE id = ..., as uid: the result set, one row or none
ReadComplaint(uid, id, table) ==
    { table[i] : i \in { j \in DOMAIN table : j = id /\ ComplaintsSelectUsing(uid, table[j]) } }

\* ORDER BY created_at DESC: the orders the rows of a set can be returned in.  Rows with
\* the same created_at come in either order: the query names no second sort key.
RECURSIVE OrderByCreatedAtDesc(_)
OrderByCreatedAtDesc(rows) ==
    IF rows = {} THEN { << >> }
    ELSE UNION { { <<first>> \o rest : rest \in OrderByCreatedAtDesc(rows \ {first}) } :
                   first \in { r \in rows : \A q \in rows : r.created_at >= q.created_at } }

\* fetchComplaints with .order("created_at", { ascending: true })
fetchComplaints_ascending(uid, userId) ==
    { [ k \in 1 .. Len(list) |-> list[Len(list) + 1 - k] ] :
        list \in OrderByCreatedAtDesc({ r \in SelectComplaints(uid, complaints) :
                                          r.student_id = userId }) }

\* Dashboard.tsx: from("complaints").select("*").eq("student_id", userId)
\* .order("created_at", { ascending: false }), in the session of uid: the lists the
\* query can answer
fetchComplaints(uid, userId) ==
    OrderByCreatedAtDesc({ r \in SelectComplaints(uid, complaints) : r.student_id = userId })

\* SELECT * FROM identity_lockers, as uid
SelectLockers(uid) ==
    { identity_lockers[c] :
        c \in { d \in DOMAIN identity_lockers : AdminCanManageIdentityLockers(uid) } }

-----------------------------------------------------------------------------
(* Statements *)

\* the response to a statement of uid
Response(uid, outcome) == [ by |-> uid, outcome |-> outcome ]

Idle == [ pc |-> "idle", uid |-> Null, now |-> 0, row |-> handleSubmit(Null, FALSE) ]

\* the key gen_random_uuid() gives the next row of the table: a fresh one, here the
\* next serial number (the order of the keys carries no meaning)
NextId == Cardinality(DOMAIN complaints) + 1

\* rows written by transactions that have not committed yet
InFlight == Cardinality({ s \in Sessions : txn[s].pc = "written" })

\* the start times of the transactions that are open: begun, and neither committed
\* nor failed
InFlightNow ==
    { txn[s].now : s \in { c \in Sessions : txn[c].pc \in {"begun", "written"} } }

\* the latest start time of a transaction that is open or has committed its row
\* (0: there is none)
LatestCreatedAt ==
    LET stamps == { complaints[i].created_at : i \in DOMAIN complaints }
                     \cup InFlightNow \cup {0}
    IN  CHOOSE t \in stamps : \A q \in stamps : t >= q

\* NOW() in a transaction that begins at this moment: its start time, as a rank among
\* the start times so far.  The clock does not run backwards: the transaction begins
\* later than every transaction that has committed, and later than, or at the same
\* time as, a transaction that is still open.
Now == { LatestCreatedAt + 1 } \cup { t \in InFlightNow : t = LatestCreatedAt }

\* INSERT INTO complaints as uid: the BEFORE INSERT trigger, then the WITH CHECK of the
\* INSERT policy, then the CHECK constraint
InsertOutcome(uid, NEWROW) ==
    IF check_active_complaint_limit(NEWROW) THEN "LimitExceeded"
    ELSE IF ~ComplaintsInsertCheck(uid, NEWROW) THEN "RlsViolation"
    ELSE IF ~rating_check(NEWROW) THEN "CheckViolation"
    ELSE "ok"

\* BEGIN on connection s: NOW() is fixed for the transaction.  maxRows bounds the
\* times of the clock of the model.
SubmitBegin(s, maxRows) ==
    /\ txn[s].pc = "idle"
    /\ \E t \in Now \cap (1 .. maxRows + 1) :
          txn' = [txn EXCEPT ![s] = [ Idle EXCEPT !.pc = "begun", !.now = t ]]
    /\ UNCHANGED <<tables, resp>>

\* INSERT INTO complaints, up to the end of the statement, in the transaction of
\* connection s: an error is the response, and the transaction is over; otherwise the
\* row is written in the transaction, with the start time of the transaction as its
\* created_at, and the transaction has not committed.  maxRows bounds the rows of the
\* model.
SubmitCheck(s, uid, NEWROW, maxRows) ==
    /\ txn[s].pc = "begun"
    /\ IF InsertOutcome(uid, NEWROW) # "ok"
       THEN /\ resp' = Response(uid, InsertOutcome(uid, NEWROW))
            /\ txn' = [txn EXCEPT ![s] = Idle]
       ELSE /\ Cardinality(DOMAIN complaints) + InFlight < maxRows
            /\ txn' = [txn EXCEPT ![s] =
                          [ pc |-> "written", uid |-> uid, now |-> txn[s].now,
                            row |-> [NEWROW EXCEPT !.created_at = txn[s].now] ]]
            /\ UNCHANGED resp
    /\ UNCHANGED tables

\* COMMIT of the INSERT: the row and what its AFTER INSERT triggers wrote become visible
SubmitCommit(s) ==
    /\ txn[s].pc = "written"
    /\ LET NEWROW == [txn[s].row EXCEPT !.id = NextId]
       IN  /\ complaints' = complaints @@ (NEWROW.id :> NEWROW)
           /\ identity_lockers' = on_anonymous_complaint(identity_lockers, NEWROW)
           /\ complaint_timeline' = add_complaint_timeline(complaint_timeline, NEWROW)
           /\ resp' = Response(txn[s].uid, "ok")
    /\ txn' = [txn EXCEPT ![s] = Idle]
    /\ UNCHANGED <<profiles, user_roles>>

\* the transaction fails before its commit (connection lost, statement timeout)
SubmitAbort(s) ==
    /\ txn[s].pc \in {"begun", "written"}
    /\ txn' = [txn EXCEPT ![s] = Idle]
    /\ UNCHANGED <<tables, resp>>

\* the row with the columns of the SET clause replaced
ApplyPatch(r, patch) ==
    [ k \in DOMAIN r |-> IF k \in DOMAIN patch THEN patch[k] ELSE r[k] ]

\* UPDATE complaints SET <patch> WHERE id = ..., as uid: the rows the SELECT and UPDATE
\* policies pass are updated, then the new row is checked by the UPDATE policies (and,
\* the WHERE clause reading the table, by the SELECT policies), then by the constraint
UpdateOutcome(uid, id, patch) ==
    IF id \notin DOMAIN complaints THEN "NoRows"
    ELSE IF ~(ComplaintsSelectUsing(uid, complaints[id])
                /\ ComplaintsUpdateUsing(uid, complaints[id])) THEN "NoRows"
    ELSE IF ~(ComplaintsUpdateCheck(uid, ApplyPatch(complaints[id], patch))
                /\ ComplaintsSelectUsing(uid, ApplyPatch(complaints[id], patch)))
         THEN "RlsViolation"
    ELSE IF ~rating_check(ApplyPatch(complaints[id], patch)) THEN "CheckViolation"
    ELSE "ok"

UpdateComplaint(uid, id, patch) ==
    /\ resp' = Response(uid, UpdateOutcome(uid, id, patch))
    /\ complaints' = IF UpdateOutcome(uid, id, patch) = "ok"
                     THEN [complaints EXCEPT ![id] = ApplyPatch(complaints[id], patch)]
                     ELSE complaints
    /\ UNCHANGED <<profiles, user_roles, complaint_timeline, identity_lockers, txn>>

\* UPDATE complaints on connection s, up to its scan: the statement finds the row in
\* its snapshot through the SELECT and UPDATE policies, or answers that it updated no
\* row; a row found is updated once the statement holds the row's lock
UpdateBegin(s, uid, id, patch) ==
    /\ txn[s].pc = "idle"
    /\ IF UpdateOutcome(uid, id, patch) = "NoRows"
       THEN /\ resp' = Response(uid, "NoRows")
            /\ UNCHANGED txn
       ELSE /\ txn' = [txn EXCEPT ![s] = [ pc |-> "update", uid |-> uid,
                                           id |-> id, patch |-> patch ]]
            /\ UNCHANGED resp
    /\ UNCHANGED tables

\* the UPDATE of connection s holds the row's lock: under READ COMMITTED it evaluates
\* its WHERE clause and the policies again on the latest committed version of the row,
\* writes the SET clause over that version, and commits
UpdateApply(s) ==
    /\ txn[s].pc = "update"
    /\ resp' = Response(txn[s].uid, UpdateOutcome(txn[s].uid, txn[s].id, txn[s].patch))
    /\ complaints' = IF UpdateOutcome(txn[s].uid, txn[s].id, txn[s].patch) = "ok"
                     THEN [complaints EXCEPT ![txn[s].id] =
                             ApplyPatch(complaints[txn[s].id], txn[s].patch)]
                     ELSE complaints
    /\ txn' = [txn EXCEPT ![s] = Idle]
    /\ UNCHANGED <<profiles, user_roles, complaint_timeline, identity_lockers>>

\* INSERT INTO complaint_timeline (complaint_id, updated_by, message), as uid
InsertTimeline(uid, entry) ==
    /\ IF TimelineInsertCheck(uid, entry)
       THEN /\ complaint_timeline' = Append(complaint_timeline, entry)
            /\ resp' = Response(uid, "ok")
       ELSE /\ resp' = Response(uid, "RlsViolation")
            /\ UNCHANGED complaint_timeline
    /\ UNCHANGED <<profiles, user_roles, complaints, identity_lockers, txn>>

\* UPDATE complaint_timeline SET message = ... WHERE <the k-th entry>, as uid
UpdateTimeline(uid, k, message) ==
    /\ IF k \in DOMAIN complaint_timeline /\ TimelineUpdateUsing(uid, complaint_timeline[k])
       THEN /\ complaint_timeline' = [complaint_timeline EXCEPT ![k].message = message]
            /\ resp' = Response(uid, "ok")
       ELSE /\ resp' = Response(uid, "NoRows")
            /\ UNCHANGED complaint_timeline
    /\ UNCHANGED <<profiles, user_roles, complaints, identity_lockers, txn>>

\* DELETE FROM complaint_timeline WHERE <the k-th entry>, as uid
DeleteTimeline(uid, k) ==
    /\ IF k \in DOMAIN complaint_timeline /\ TimelineDeleteUsing(uid, complaint_timeline[k])
       THEN /\ complaint_timeline' =
                   SubSeq(complaint_timeline, 1, k - 1)
                      \o SubSeq(complaint_timeline, k + 1, Len(complaint_timeline))
            /\ resp' = Response(uid, "ok")
       ELSE /\ resp' = Response(uid, "NoRows")
            /\ UNCHANGED complaint_timeline
    /\ UNCHANGED <<profiles, user_roles, complaints, identity_lockers, txn>>

\* DELETE FROM complaints WHERE id = ..., as uid; the timeline entries and the locker
\* of a deleted complaint go with it (ON DELETE CASCADE)
DeleteComplaint(uid, id) ==
    /\ IF id \in DOMAIN complaints /\ ComplaintsDeleteUsing(uid, complaints[id])
       THEN /\ complaints' = [ i \in DOMAIN complaints \ {id} |-> complaints[i] ]
            /\ complaint_timeline' =
                   SelectSeq(complaint_timeline, LAMBDA e : e.complaint_id # id)
            /\ identity_lockers' =
                   [ c \in DOMAIN identity_lockers \ {id} |-> identity_lockers[c] ]
            /\ resp' = Response(uid, "ok")
       ELSE /\ resp' = Response(uid, "NoRows")
            /\ UNCHANGED <<complaints, complaint_timeline, identity_lockers>>
    /\ UNCHANGED <<profiles, user_roles, txn>>

\* UPDATE identity_lockers SET <patch> WHERE complaint_id = ..., as uid
UpdateLocker(uid, cid, patch) ==
    /\ IF cid \notin DOMAIN identity_lockers \/ ~AdminCanManageIdentityLockers(uid)
       THEN /\ resp' = Response(uid, "NoRows")
            /\ UNCHANGED identity_lockers
       ELSE /\ identity_lockers' =
                   [identity_lockers EXCEPT ![cid] = ApplyPatch(identity_lockers[cid], patch)]
            /\ resp' = Response(uid, "ok")
    /\ UNCHANGED <<profiles, user_roles, complaints, complaint_timeline, txn>>

\* INSERT INTO identity_lockers (complaint_id, real_student_id), as uid: the WITH CHECK
\* of the policy, then the primary key, then the foreign key to complaints
InsertLockerOutcome(uid, cid) ==
    IF ~AdminCanManageIdentityLockers(uid) THEN "RlsViolation"
    ELSE IF cid \in DOMAIN identity_lockers THEN "UniqueViolation"
    ELSE IF cid \notin DOMAIN complaints THEN "ForeignKeyViolation"
    ELSE "ok"

InsertLocker(uid, cid, real_student_id) ==
    /\ resp' = Response(uid, InsertLockerOutcome(uid, cid))
    /\ identity_lockers' =
          IF InsertLockerOutcome(uid, cid) = "ok"
          THEN identity_lockers @@ (cid :> [ complaint_id        |-> cid,
                                             real_student_id     |-> real_student_id,
                                             reveal_status       |-> "not_revealed",
                                             reveal_requested_by |-> Null,
                                             revealed_at         |-> Null ])
          ELSE identity_lockers
    /\ UNCHANGED <<profiles, user_roles, complaints, complaint_timeline, txn>>

\* DELETE FROM identity_lockers WHERE complaint_id = ..., as uid
DeleteLocker(uid, cid) ==
    /\ IF cid \notin DOMAIN identity_lockers \/ ~AdminCanManageIdentityLockers(uid)
       THEN /\ resp' = Response(uid, "NoRows")
            /\ UNCHANGED identity_lockers
       ELSE /\ identity_lockers' =
                   [ c \in DOMAIN identity_lockers \ {cid} |-> identity_lockers[c] ]
            /\ resp' = Response(uid, "ok")
    /\ UNCHANGED <<profiles, user_roles, complaints, complaint_timeline, txn>>

\* the answer to INSERT INTO user_roles (user_id, role), as uid, when no other
\* transaction is open: the WITH CHECK of the policy, then UNIQUE (user_id, role)
InsertRoleOutcome(uid, user_id, role) ==
    IF ~AdminsManageUserRoles(uid) THEN "RlsViolation"
    ELSE IF <<user_id, role>> \in user_roles THEN "UniqueViolation"
    ELSE "ok"

\* the statement of uid on user_roles that is open on a connection.  where is the
\* row its WHERE and the policies found on the snapshot of the statement (none for an
\* INSERT), found is that same row as the last committed transaction left it (the row
\* is one row, whatever its role: its key is id), {} once it is deleted, and add is
\* the row the statement writes.  pc is "role" from the snapshot on, and "rolew"
\* once the statement has written the heap and holds the lock of the row it found.
RoleStatement(pc, uid, where, add) ==
    [ pc |-> pc, uid |-> uid, where |-> where, found |-> where, add |-> add ]

\* INSERT INTO user_roles on connection s, up to the heap: WITH CHECK of the policy
\* FOR ALL, where has_role is STABLE and reads the table as of the start of the
\* statement.  UNIQUE (user_id, role) is tested later, when the row enters the index.
InsertRole(s, uid, user_id, role) ==
    /\ txn[s].pc = "idle"
    /\ IF ~AdminsManageUserRoles(uid)
       THEN /\ resp' = Response(uid, "RlsViolation")
            /\ UNCHANGED txn
       ELSE /\ txn' = [txn EXCEPT ![s] =
                          RoleStatement("rolew", uid, {}, { <<user_id, role>> })]
            /\ UNCHANGED resp
    /\ UNCHANGED tables

\* the rows WHERE user_id = ... AND role = ... of a DELETE or an UPDATE of uid finds on
\* its snapshot: those the SELECT policy and the USING of the policy FOR ALL pass
RoleRows(uid, user_id, role) ==
    { row \in user_roles : /\ row = <<user_id, role>>
                           /\ UsersCanViewTheirOwnRoles(uid, row)
                           /\ AdminsManageUserRoles(uid) }

\* DELETE FROM user_roles WHERE user_id = ... AND role = ..., as uid, on connection s,
\* up to the scan of its snapshot
DeleteRole(s, uid, user_id, role) ==
    /\ txn[s].pc = "idle"
    /\ IF RoleRows(uid, user_id, role) = {}
       THEN /\ resp' = Response(uid, "NoRows")
            /\ UNCHANGED txn
       ELSE /\ txn' = [txn EXCEPT ![s] =
                          RoleStatement("role", uid, RoleRows(uid, user_id, role), {})]
            /\ UNCHANGED resp
    /\ UNCHANGED tables

\* UPDATE user_roles SET role = new_role WHERE user_id = ... AND role = ..., as uid, on
\* connection s, up to the scan of its snapshot, with the WITH CHECK of the policy FOR
\* ALL (has_role answers on the snapshot, whenever it is asked)
UpdateRole(s, uid, user_id, role, new_role) ==
    /\ txn[s].pc = "idle"
    /\ IF RoleRows(uid, user_id, role) = {}
       THEN /\ resp' = Response(uid, "NoRows")
            /\ UNCHANGED txn
       ELSE IF ~AdminsManageUserRoles(uid)
       THEN /\ resp' = Response(uid, "RlsViolation")
            /\ UNCHANGED txn
       ELSE /\ txn' = [txn EXCEPT ![s] =
                          RoleStatement("role", uid, RoleRows(uid, user_id, role),
                                        { <<user_id, new_role>> })]
            /\ UNCHANGED resp
    /\ UNCHANGED tables

\* an open transaction other than that of s holds the lock of the row rows: it has
\* deleted or updated it and has not committed
RowLocked(s, rows) ==
    \E c \in Sessions \ {s} :
        /\ txn[c].pc = "rolew"
        /\ txn[c].found # {}
        /\ txn[c].found = rows

\* the DELETE or UPDATE of connection s takes the row it found: a row a committed
\* transaction deleted is skipped; a row an open transaction holds is waited for; a
\* row a committed transaction updated is read again in its last version, and
\* skipped when WHERE fails on it
RoleWrite(s) ==
    /\ txn[s].pc = "role"
    /\ IF txn[s].found = {}
       THEN /\ resp' = Response(txn[s].uid, "NoRows")
            /\ txn' = [txn EXCEPT ![s] = Idle]
       ELSE /\ ~RowLocked(s, txn[s].found)
            /\ IF txn[s].found # txn[s].where
               THEN /\ resp' = Response(txn[s].uid, "NoRows")
                    /\ txn' = [txn EXCEPT ![s] = Idle]
               ELSE /\ txn' = [txn EXCEPT ![s].pc = "rolew"]
                    /\ UNCHANGED resp
    /\ UNCHANGED tables

\* the keys the statement of connection s enters in the index of UNIQUE (user_id, role)
NewKeys(s) == txn[s].add \ txn[s].found

\* the statement of s waits in the index for the transaction of c: c has deleted or
\* updated the row that holds a key s enters, and has not committed
WaitsFor(s, c) ==
    /\ c # s
    /\ txn[s].pc = "rolew"
    /\ txn[c].pc = "rolew"
    /\ NewKeys(s) \cap txn[c].found # {}

\* UNIQUE (user_id, role) when the row of connection s enters the index, on the last
\* committed rows.  The policies are not read again.
RoleCommitOutcome(s) ==
    IF NewKeys(s) \cap user_roles # {} THEN "UniqueViolation" ELSE "ok"

\* the statement of connection s enters its row in the index, once no open transaction
\* holds the key, and its transaction commits.  The statements that found the row it
\* deleted or updated find it deleted, or in its new version.
RoleCommit(s) ==
    /\ txn[s].pc = "rolew"
    /\ ~\E c \in Sessions : WaitsFor(s, c)
    /\ resp' = Response(txn[s].uid, RoleCommitOutcome(s))
    /\ user_roles' = IF RoleCommitOutcome(s) = "ok"
                     THEN (user_roles \ txn[s].found) \cup txn[s].add
                     ELSE user_roles
    /\ txn' = [ c \in Sessions |->
                 IF c = s THEN Idle
                 ELSE IF /\ RoleCommitOutcome(s) = "ok"
                         /\ txn[c].pc = "role"
                         /\ txn[s].found # {}
                         /\ txn[c].found = txn[s].found
                      THEN [txn[c] EXCEPT !.found = txn[s].add]
                      ELSE txn[c] ]
    /\ UNCHANGED <<profiles, complaints, complaint_timeline, identity_lockers>>

\* the statements of s and of another connection wait for each other in the index:
\* the deadlock detector fails one of them, here that of s, and its writes are undone
RoleDeadlock(s) ==
    /\ \E c \in Sessions : WaitsFor(s, c) /\ WaitsFor(c, s)
    /\ resp' = Response(txn[s].uid, "DeadlockDetected")
    /\ txn' = [txn EXCEPT ![s] = Idle]
    /\ UNCHANGED tables

\* INSERT INTO auth.users: the trigger on_auth_user_created runs handle_new_user, whose
\* INSERT fails when it names a column that public.profiles does not have, and the
\* signup fails with it
SignupOutcome ==
    IF handle_new_user_columns \subseteq profiles_columns THEN "ok" ELSE "UndefinedColumn"

Signup(NEWROW) ==
    /\ NEWROW.id \notin DOMAIN profiles
    /\ resp' = Response(NEWROW.id, SignupOutcome)
    /\ profiles' = IF SignupOutcome = "ok"
                   THEN profiles @@ (NEWROW.id :> handle_new_user(NEWROW))
                   ELSE profiles
    /\ UNCHANGED <<user_roles, complaints, complaint_timeline, identity_lockers, txn>>

\* UPDATE profiles SET <patch> WHERE id = ..., as uid
UpdateProfile(uid, id, patch) ==
    /\ IF /\ UsersCanViewTheirOwnProfile(uid, profiles[id])
          /\ UsersCanUpdateTheirOwnProfile(uid, profiles[id])
       THEN /\ profiles' = [profiles EXCEPT ![id] =
                               update_updated_at_column(ApplyPatch(profiles[id], patch))]
            /\ resp' = Response(uid, "ok")
       ELSE /\ resp' = Response(uid, "NoRows")
            /\ UNCHANGED profiles
    /\ UNCHANGED <<user_roles, complaints, complaint_timeline, identity_lockers, txn>>

-----------------------------------------------------------------------------
(* Initial state: the principals signed up before the second migration, u1 with a  *)
(* name in its metadata and the others without, and hold one role each; no         *)
(* complaint                                                                       *)

Init ==
    /\ profiles = [ u \in Users |->
                      handle_new_user(NewUser(u, IF u = "u1" THEN "Alice" ELSE Null)) ]
    /\ user_roles = { <<"u1", "student">>, <<"u2", "staff">>, <<"u3", "admin">> }
    /\ complaints = << >>
    /\ complaint_timeline = << >>
    /\ identity_lockers = << >>
    /\ txn = [ s \in Sessions |-> Idle ]
    /\ resp = Response(Null, "none")

-----------------------------------------------------------------------------
(* Submission model: the form of Landing.tsx is submitted in the name of the        *)
(* student on concurrent connections, by the student and by the staff member, and  *)
(* complaints are withdrawn.                                                       *)

Submitters == {"u1", "u2"}

SubmitPatches ==
    { [ withdrawn_at |-> SomeTime ], [ status |-> "resolved" ] }

NextSubmit ==
    \/ \E s \in Sessions : SubmitBegin(s, MaxComplaints)
    \/ \E s \in Sessions, uid \in Submitters :
          SubmitCheck(s, uid, handleSubmit("u1", FALSE), MaxComplaints)
    \/ \E s \in Sessions : SubmitCommit(s)
    \/ \E s \in Sessions : SubmitAbort(s)
    \/ \E uid \in Submitters, id \in 1 .. MaxComplaints :
          UpdateComplaint(uid, id, [ withdrawn_at |-> SomeTime ])

SpecSubmit == Init /\ [][NextSubmit]_vars

-----------------------------------------------------------------------------
(* Creation model: concurrent submissions, anonymous or not, and nothing else *)

NextCreate ==
    \/ \E s \in Sessions : SubmitBegin(s, MaxCreated)
    \/ \E s \in Sessions, uid \in Submitters, sid \in Submitters, anon \in BOOLEAN :
          SubmitCheck(s, uid, handleSubmit(sid, anon), MaxCreated)
    \/ \E s \in Sessions : SubmitCommit(s)
    \/ \E s \in Sessions : SubmitAbort(s)

SpecCreate == Init /\ [][NextCreate]_vars

-----------------------------------------------------------------------------
(* Access model: every principal submits, and updates the columns that the         *)
(* policies and the identity locker read.                                          *)

\* one connection: these models do not interleave transactions
OneSession == {"c1"}

AccessPatches ==
    { [ student_id |-> u ] : u \in Users }
      \cup { [ staff_assigned |-> u ] : u \in Users \cup {Null} }
      \cup { [ is_anonymous |-> b ] : b \in BOOLEAN }

Next ==
    \/ \E s \in OneSession : SubmitBegin(s, MaxRows)
    \/ \E s \in OneSession, uid \in Users, sid \in Users, anon \in BOOLEAN :
          SubmitCheck(s, uid, handleSubmit(sid, anon), MaxRows)
    \/ \E s \in OneSession : SubmitCommit(s)
    \/ \E s \in OneSession : SubmitAbort(s)
    \/ \E uid \in Users, id \in 1 .. MaxRows, patch \in AccessPatches :
          UpdateComplaint(uid, id, patch)

Spec == Init /\ [][Next]_vars

-----------------------------------------------------------------------------
(* Read model: every principal submits for itself, and updates the columns that    *)
(* the SELECT policies read.                                                       *)

ReadPatches ==
    { [ student_id |-> u ] : u \in Users }
      \cup { [ staff_assigned |-> u ] : u \in Users \cup {Null} }

NextRead ==
    \/ \E s \in OneSession : SubmitBegin(s, MaxRows)
    \/ \E s \in OneSession, uid \in Users :
          SubmitCheck(s, uid, handleSubmit(uid, FALSE), MaxRows)
    \/ \E s \in OneSession : SubmitCommit(s)
    \/ \E s \in OneSession : SubmitAbort(s)
    \/ \E uid \in Users, id \in 1 .. MaxRows, patch \in ReadPatches :
          UpdateComplaint(uid, id, patch)

SpecRead == Init /\ [][NextRead]_vars

-----------------------------------------------------------------------------
(* Lifecycle model: every principal submits, and updates the status, the           *)
(* assignment, and the resolution and withdrawal timestamps.                       *)

LifecyclePatches ==
    { [ status |-> v ] : v \in complaint_status }
      \cup { [ status |-> "resolved", resolved_at |-> SomeTime ] }
      \cup { [ staff_assigned |-> u ] : u \in Users \cup {Null} }
      \cup { [ resolved_at |-> t ] : t \in {SomeTime, Null} }
      \cup { [ withdrawn_at |-> t ] : t \in {SomeTime, Null} }

NextLifecycle ==
    \/ \E s \in OneSession : SubmitBegin(s, MaxRows)
    \/ \E s \in OneSession, uid \in Users, sid \in Users :
          SubmitCheck(s, uid, handleSubmit(sid, FALSE), MaxRows)
    \/ \E s \in OneSession : SubmitCommit(s)
    \/ \E s \in OneSession : SubmitAbort(s)
    \/ \E uid \in Users, id \in 1 .. MaxRows, patch \in LifecyclePatches :
          UpdateComplaint(uid, id, patch)

SpecLifecycle == Init /\ [][NextLifecycle]_vars

-----------------------------------------------------------------------------
(* Reveal model: every principal submits, a complaint is assigned, and the reveal  *)
(* status of its identity locker is updated.                                       *)

reveal_status == {"not_revealed", "requested", "revealed"}

LockerPatches == { [ reveal_status |-> v ] : v \in reveal_status }

AssignPatches == { [ staff_assigned |-> u ] : u \in Users \cup {Null} }

NextReveal ==
    \/ \E s \in OneSession : SubmitBegin(s, MaxRows)
    \/ \E s \in OneSession, uid \in Users, sid \in Users, anon \in BOOLEAN :
          SubmitCheck(s, uid, handleSubmit(sid, anon), MaxRows)
    \/ \E s \in OneSession : SubmitCommit(s)
    \/ \E s \in OneSession : SubmitAbort(s)
    \/ \E uid \in Users, id \in 1 .. MaxRows, patch \in AssignPatches :
          UpdateComplaint(uid, id, patch)
    \/ \E uid \in Users, cid \in 1 .. MaxRows, patch \in LockerPatches :
          UpdateLocker(uid, cid, patch)

SpecReveal == Init /\ [][NextReveal]_vars

-----------------------------------------------------------------------------
(* Resolution model: a complaint is submitted, assigned and taken in progress, and *)
(* its assigned staff member and the admin resolve it on concurrent connections.   *)

SetupPatches == { [ staff_assigned |-> "u2" ], [ status |-> "in_progress" ] }

ResolvePatches ==
    { [ status |-> "resolved", resolved_at |-> t ] : t \in {SomeTime, OtherTime} }

Resolvers == {"u2", "u3"}

NextResolve ==
    \/ \E s \in Sessions : SubmitBegin(s, MaxRows)
    \/ \E s \in Sessions : SubmitCheck(s, "u1", handleSubmit("u1", FALSE), MaxRows)
    \/ \E s \in Sessions : SubmitCommit(s)
    \/ \E s \in Sessions : SubmitAbort(s)
    \/ \E id \in 1 .. MaxRows, patch \in SetupPatches : UpdateComplaint("u3", id, patch)
    \/ \E s \in Sessions, uid \in Resolvers, id \in 1 .. MaxRows, patch \in ResolvePatches :
          UpdateBegin(s, uid, id, patch)
    \/ \E s \in Sessions : UpdateApply(s)

SpecResolve == Init /\ [][NextResolve]_vars

-----------------------------------------------------------------------------
(* Audit model: every principal submits, updates the status and the withdrawal     *)
(* timestamp, and writes timeline entries.                                         *)

AuditPatches ==
    { [ status |-> v ] : v \in complaint_status }
      \cup { [ withdrawn_at |-> SomeTime ] }

\* the timeline entry a client writes for a change it made
TransitionEntry(uid, id) ==
    [ complaint_id |-> id, updated_by |-> uid, message |-> "Status updated" ]

NextAudit ==
    \/ \E s \in OneSession : SubmitBegin(s, MaxRows)
    \/ \E s \in OneSession, uid \in Users :
          SubmitCheck(s, uid, handleSubmit(uid, FALSE), MaxRows)
    \/ \E s \in OneSession : SubmitCommit(s)
    \/ \E s \in OneSession : SubmitAbort(s)
    \/ \E uid \in Users, id \in 1 .. MaxRows, patch \in AuditPatches :
          UpdateComplaint(uid, id, patch)
    \/ \E uid \in Users, id \in 1 .. MaxRows : InsertTimeline(uid, TransitionEntry(uid, id))

SpecAudit == Init /\ [][NextAudit]_vars

-----------------------------------------------------------------------------
(* Locker model: the student and the staff member submit for themselves, the admin *)
(* assigns complaints to the staff member and grants the student and staff roles,  *)
(* and every principal updates, inserts and deletes identity lockers.              *)

NonAdmins == {"u1", "u2"}

NonAdminRoles == {"student", "staff"}

NextLocker ==
    \/ \E s \in OneSession : SubmitBegin(s, MaxRows)
    \/ \E s \in OneSession, uid \in NonAdmins, anon \in BOOLEAN :
          SubmitCheck(s, uid, handleSubmit(uid, anon), MaxRows)
    \/ \E s \in OneSession : SubmitCommit(s)
    \/ \E s \in OneSession : SubmitAbort(s)
    \/ \E id \in 1 .. MaxRows : UpdateComplaint("u3", id, [ staff_assigned |-> "u2" ])
    \/ \E s \in OneSession, user_id \in NonAdmins, role \in NonAdminRoles :
          InsertRole(s, "u3", user_id, role)
    \/ \E s \in OneSession : RoleCommit(s)
    \/ \E uid \in Users, cid \in 1 .. MaxRows :
          UpdateLocker(uid, cid, [ reveal_status |-> "revealed" ])
    \/ \E uid \in Users, cid \in 1 .. MaxRows, real \in NonAdmins :
          InsertLocker(uid, cid, real)
    \/ \E uid \in Users, cid \in 1 .. MaxRows : DeleteLocker(uid, cid)

SpecLocker == Init /\ [][NextLocker]_vars

-----------------------------------------------------------------------------
(* Rating model: every principal submits, and updates the status and the rating.   *)

\* ratings a client sends: NULL, the two ends of the range, and one beyond it
RatingPatches == { [ rating |-> n ] : n \in {NullRating, 1, 5, 6} }

StatusPatches == { [ status |-> v ] : v \in complaint_status }

NextRate ==
    \/ \E s \in OneSession : SubmitBegin(s, MaxRows)
    \/ \E s \in OneSession, uid \in Users :
          SubmitCheck(s, uid, handleSubmit(uid, FALSE), MaxRows)
    \/ \E s \in OneSession : SubmitCommit(s)
    \/ \E s \in OneSession : SubmitAbort(s)
    \/ \E uid \in Users, id \in 1 .. MaxRows, patch \in StatusPatches \cup RatingPatches :
          UpdateComplaint(uid, id, patch)

SpecRate == Init /\ [][NextRate]_vars

-----------------------------------------------------------------------------
(* Role model: every principal submits for itself, and on two connections every    *)
(* principal inserts, updates and deletes the staff and admin assignments of the   *)
(* student and of the admin.                                                       *)

Managed == {"u1", "u3"}

ManagedRoles == {"staff", "admin"}

NextRoles ==
    \/ \E s \in OneSession : SubmitBegin(s, MaxRows)
    \/ \E s \in OneSession, uid \in Users :
          SubmitCheck(s, uid, handleSubmit(uid, FALSE), MaxRows)
    \/ \E s \in OneSession : SubmitCommit(s)
    \/ \E s \in OneSession : SubmitAbort(s)
    \/ \E s \in Sessions, uid \in Users, user_id \in Managed, role \in ManagedRoles :
          InsertRole(s, uid, user_id, role)
    \/ \E s \in Sessions, uid \in Users, user_id \in Managed, role \in ManagedRoles,
             new_role \in ManagedRoles :
          UpdateRole(s, uid, user_id, role, new_role)
    \/ \E s \in Sessions, uid \in Users, user_id \in Managed, role \in ManagedRoles :
          DeleteRole(s, uid, user_id, role)
    \/ \E s \in Sessions : RoleWrite(s)
    \/ \E s \in Sessions : RoleCommit(s)
    \/ \E s \in Sessions : RoleDeadlock(s)

SpecRoles == Init /\ [][NextRoles]_vars

-----------------------------------------------------------------------------
(* Profile model: every principal submits for itself and edits profiles; the       *)
(* admin assigns complaints to the staff member; a new principal signs up.         *)

\* names a principal writes in a profile: the default, and the name of a role
ProfilePatches == { [ name |-> n ] : n \in {"Student", "admin"} }

NextProfile ==
    \/ \E s \in OneSession : SubmitBegin(s, MaxRows)
    \/ \E s \in OneSession, uid \in Users :
          SubmitCheck(s, uid, handleSubmit(uid, FALSE), MaxRows)
    \/ \E s \in OneSession : SubmitCommit(s)
    \/ \E s \in OneSession : SubmitAbort(s)
    \/ \E id \in 1 .. MaxRows : UpdateComplaint("u3", id, [ staff_assigned |-> "u2" ])
    \/ \E uid \in Users, id \in Users, patch \in ProfilePatches : UpdateProfile(uid, id, patch)
    \/ \E name \in {"Alice", Null} : Signup(NewUser("u4", name))

SpecProfile == Init /\ [][NextProfile]_vars

-----------------------------------------------------------------------------
(* Timeline model: every principal submits for itself, updates the status of       *)
(* complaints, deletes complaints, and inserts, updates and deletes timeline       *)
(* entries.                                                                        *)

NextTimeline ==
    \/ \E s \in OneSession : SubmitBegin(s, MaxComplaints)
    \/ \E s \in OneSession, uid \in Users :
          SubmitCheck(s, uid, handleSubmit(uid, FALSE), MaxComplaints)
    \/ \E s \in OneSession : SubmitCommit(s)
    \/ \E s \in OneSession : SubmitAbort(s)
    \/ \E uid \in Users, id \in 1 .. MaxComplaints :
          UpdateComplaint(uid, id, [ status |-> "resolved" ])
    \/ \E uid \in Users, id \in 1 .. MaxComplaints : DeleteComplaint(uid, id)
    \/ \E uid \in Users, id \in 1 .. MaxComplaints :
          InsertTimeline(uid, TransitionEntry(uid, id))
    \/ \E uid \in Users, k \in 1 .. MaxComplaints : UpdateTimeline(uid, k, "Status updated")
    \/ \E uid \in Users, k \in 1 .. MaxComplaints : DeleteTimeline(uid, k)

SpecTimeline == Init /\ [][NextTimeline]_vars

-----------------------------------------------------------------------------
(* Grant model: every principal inserts and deletes role assignments.              *)

NextGrant ==
    \/ \E s \in OneSession, uid \in Users, user_id \in Users, role \in user_role :
          InsertRole(s, uid, user_id, role)
    \/ \E s \in OneSession, uid \in Users, user_id \in Users, role \in user_role :
          DeleteRole(s, uid, user_id, role)
    \/ \E s \in OneSession : RoleWrite(s)
    \/ \E s \in OneSession : RoleCommit(s)

SpecGrant == Init /\ [][NextGrant]_vars

-----------------------------------------------------------------------------
(* Insert model: the student and the staff member insert complaints for themselves *)
(* with the columns of their choice.                                               *)

\* the rows a client sends: every column the form leaves to its default, set
InsertedRows(uid) ==
    { NewRow(uid, FALSE, status, staff_assigned, rating, resolved_at, withdrawn_at) :
        status \in complaint_status,
        staff_assigned \in {Null, "u2"},
        rating \in {NullRating, 5, 6},
        resolved_at \in {Null, SomeTime},
        withdrawn_at \in {Null, SomeTime} }

NextInsert ==
    \/ \E s \in OneSession : SubmitBegin(s, MaxRows)
    \/ \E s \in OneSession, uid \in NonAdmins :
          \E row \in InsertedRows(uid) : SubmitCheck(s, uid, row, MaxRows)
    \/ \E s \in OneSession : SubmitCommit(s)
    \/ \E s \in OneSession : SubmitAbort(s)

SpecInsert == Init /\ [][NextInsert]_vars

-----------------------------------------------------------------------------
(* Cap model: the student and the staff member submit for themselves, one after    *)
(* the other, and withdraw and resolve complaints.                                 *)

NextCap ==
    \/ \E s \in OneSession : SubmitBegin(s, MaxComplaints)
    \/ \E s \in OneSession, uid \in Submitters :
          SubmitCheck(s, uid, handleSubmit(uid, FALSE), MaxComplaints)
    \/ \E s \in OneSession : SubmitCommit(s)
    \/ \E s \in OneSession : SubmitAbort(s)
    \/ \E uid \in Submitters, id \in 1 .. MaxComplaints, patch \in SubmitPatches :
          UpdateComplaint(uid, id, patch)

SpecCap == Init /\ [][NextCap]_vars

-----------------------------------------------------------------------------
(* List model: the student and the staff member submit for themselves on           *)
(* concurrent connections, and the student withdraws and resolves complaints; no   *)
(* transaction is lost before its statement or its commit.                         *)

NextList ==
    \/ \E s \in Sessions : SubmitBegin(s, MaxCreated)
    \/ \E s \in Sessions, uid \in Submitters :
          SubmitCheck(s, uid, handleSubmit(uid, FALSE), MaxCreated)
    \/ \E s \in Sessions : SubmitCommit(s)
    \/ \E id \in 1 .. MaxCreated, patch \in SubmitPatches :
          UpdateComplaint("u1", id, patch)

SpecList == Init /\ [][NextList]_vars

-----------------------------------------------------------------------------
(* Properties *)

\* the complaints of u that are neither resolved nor withdrawn
ActiveOf(u) ==
    Cardinality({ i \in DOMAIN complaints :
                    /\ complaints[i].student_id = u
                    /\ complaints[i].status # "resolved"
                    /\ complaints[i].withdrawn_at = Null })

\* the complaints of u
TotalOf(u) == Cardinality({ i \in DOMAIN complaints : complaints[i].student_id = u })

\* complaint i has a timeline entry "Complaint submitted" written by author
HasCreationEntry(i, author) ==
    \E k \in DOMAIN complaint_timeline :
        /\ complaint_timeline[k].complaint_id = i
        /\ complaint_timeline[k].message = "Complaint submitted"
        /\ complaint_timeline[k].updated_by = author

\* C1: in every reachable state, also when submissions of one submitter interleave,
\* no submitter has more than 3 complaints that are neither resolved nor withdrawn.
C1_ActiveCapHolds == \A u \in Users : ActiveOf(u) <= 3

\* C2: a submission by a principal for themselves is rejected with LimitExceeded
\* exactly when the submitter has 3 or more complaints that are neither resolved nor
\* withdrawn at the time of the call; a rejected submission changes no table and ends
\* its transaction, no other, and an accepted one was made with fewer than 3 such
\* complaints.
C2_RejectedIffAtCap ==
    /\ [](\A u \in Submitters :
            /\ (InsertOutcome(u, handleSubmit(u, FALSE)) = "LimitExceeded") <=> (ActiveOf(u) >= 3)
            /\ (InsertOutcome(u, handleSubmit(u, FALSE)) = "ok") <=> (ActiveOf(u) < 3))
    /\ [][ /\ (resp' # resp /\ resp'.outcome = "LimitExceeded")
                => /\ UNCHANGED tables
                   /\ \E s \in Sessions :
                         /\ txn[s].pc = "begun"
                         /\ txn' = [txn EXCEPT ![s] = Idle]
                   /\ ActiveOf(resp'.by) >= 3
           /\ \A s \in Sessions :
                (txn[s].pc = "begun" /\ txn'[s].pc = "written")
                    => ActiveOf(txn'[s].row.student_id) < 3 ]_vars

\* C2 witness: a submitter with 4 complaints, one of them withdrawn or resolved and 3
\* active (the 4th was accepted after the withdrawal), whose next submission was rejected.
C2_Witness ==
    /\ resp.outcome = "LimitExceeded"
    /\ \E u \in Users : ActiveOf(u) = 3 /\ TotalOf(u) = 4

\* C3: every complaint has a timeline entry "Complaint submitted" authored by the
\* complaint's submitter.
C3_CreationEntryBySubmitter ==
    \A i \in DOMAIN complaints : HasCreationEntry(i, complaints[i].student_id)

\* C4: an identity-locker entry exists for a complaint exactly when the complaint's
\* anonymity flag is true.
C4_LockerIffAnonymous ==
    \A i \in DOMAIN complaints : (i \in DOMAIN identity_lockers) <=> complaints[i].is_anonymous

\* C5: a submission is all-or-nothing.  Every committed complaint has its creation
\* entry and, when anonymous, its locker; every step that changes a table adds one
\* complaint together with its creation entry and, exactly when it is anonymous, its
\* locker, and changes nothing else; a step that answers with an error, and a
\* transaction that fails before its commit, changes no table.
C5_SubmitAllOrNothing ==
    /\ [](\A i \in DOMAIN complaints :
            /\ \E u \in Users : HasCreationEntry(i, u)
            /\ complaints[i].is_anonymous => i \in DOMAIN identity_lockers)
    /\ [][ /\ (tables' # tables) =>
                \E n \in DOMAIN complaints' \ DOMAIN complaints :
                    /\ DOMAIN complaints' = DOMAIN complaints \cup {n}
                    /\ \A i \in DOMAIN complaints : complaints'[i] = complaints[i]
                    /\ complaint_timeline' =
                          Append(complaint_timeline,
                                 [ complaint_id |-> n,
                                   updated_by   |-> complaints'[n].student_id,
                                   message      |-> "Complaint submitted" ])
                    /\ DOMAIN identity_lockers' =
                          DOMAIN identity_lockers
                             \cup (IF complaints'[n].is_anonymous THEN {n} ELSE {})
                    /\ \A c \in DOMAIN identity_lockers :
                          identity_lockers'[c] = identity_lockers[c]
                    /\ resp'.outcome = "ok"
           /\ (resp' # resp /\ resp'.outcome \in {"LimitExceeded", "RlsViolation", "CheckViolation"})
                => UNCHANGED tables
           /\ (\E s \in Sessions : txn[s].pc = "written" /\ txn'[s].pc = "idle")
                => (tables' = tables \/ resp'.outcome = "ok") ]_vars

\* C5 witness: an anonymous complaint is committed with its locker and creation entry,
\* and the last submission was rejected at the cap.
C5_Witness ==
    /\ resp.outcome = "LimitExceeded"
    /\ \E i \in DOMAIN complaints :
          /\ complaints[i].is_anonymous
          /\ i \in DOMAIN identity_lockers
          /\ HasCreationEntry(i, complaints[i].student_id)

\* p reads the real submitter of anonymous complaint i in a row it can select: the
\* student_id of the complaint row, or the identity-locker row
ObtainsSubmitter(p, i) ==
    \/ \E r \in ReadComplaint(p, i, complaints) :
          r.student_id = identity_lockers[i].real_student_id
    \/ \E l \in SelectLockers(p) : l.complaint_id = i

\* C6: the real submitter of an anonymous complaint is read by a caller other than
\* the submitter only if the caller is an admin and the reveal status is revealed.
C6_SubmitterRedacted ==
    \A p \in Users, i \in DOMAIN complaints :
        ( /\ complaints[i].is_anonymous
          /\ i \in DOMAIN identity_lockers
          /\ p # identity_lockers[i].real_student_id
          /\ ObtainsSubmitter(p, i) )
        => ( /\ <<p, "admin">> \in user_roles
             /\ identity_lockers[i].reveal_status = "revealed" )

\* p is not the owner of row r, not a staff member assigned to it and not an admin
Hidden(p, r) ==
    /\ p # r.student_id
    /\ ~(<<p, "staff">> \in user_roles /\ r.staff_assigned = p)
    /\ <<p, "admin">> \notin user_roles

\* C7: a read returns the complaint exactly when the caller owns it, or holds the
\* staff role and is its assigned staff, or holds the admin role; so does a list.
C7_ReadOnlyOwnerStaffAdmin ==
    \A p \in Users :
        /\ \A id \in DOMAIN complaints \cup {NextId} :
              ReadComplaint(p, id, complaints) =
                 IF id \in DOMAIN complaints /\ ~Hidden(p, complaints[id])
                 THEN {complaints[id]} ELSE {}
        /\ SelectComplaints(p, complaints) =
              { complaints[i] : i \in { j \in DOMAIN complaints : ~Hidden(p, complaints[j]) } }
        /\ <<p, "admin">> \in user_roles
              => \A i \in DOMAIN complaints : complaints[i] \in ReadComplaint(p, i, complaints)

\* C7 witness: a complaint owned by the staff member u2 and assigned to u1, who does
\* not hold the staff role: u1 reads nothing, u2 reads it as owner, the admin reads it.
C7_Witness ==
    \E i \in DOMAIN complaints :
        /\ complaints[i].student_id = "u2"
        /\ complaints[i].staff_assigned = "u1"
        /\ <<"u1", "staff">> \notin user_roles
        /\ ReadComplaint("u1", i, complaints) = {}
        /\ ReadComplaint("u3", i, complaints) = {complaints[i]}

\* the rows a complaints table can hold at id j
RowsAt(j) ==
    { [ handleSubmit(u, a) EXCEPT !.id = j, !.created_at = j, !.staff_assigned = m ] :
        u \in Users, a \in BOOLEAN, m \in Users \cup {Null} }

\* the complaints tables that differ from the table in one row that p may read in
\* neither: the row is missing in one of the two, or differs
Variants(p) ==
    { [ i \in DOMAIN complaints \ {j} |-> complaints[i] ] :
        j \in { k \in DOMAIN complaints : Hidden(p, complaints[k]) } }
    \cup
    { [ i \in DOMAIN complaints \cup {j[1]} |-> IF i = j[1] THEN j[2] ELSE complaints[i] ] :
        j \in { x \in (DOMAIN complaints \cup {NextId}) \X RowsAt(0) :
                  /\ x[1] \in DOMAIN complaints => Hidden(p, complaints[x[1]])
                  /\ Hidden(p, x[2]) } }

\* C8: a caller gets the same result from every read and list in two states that
\* differ only in complaints the caller may not read; in particular the read of a
\* complaint the caller may not read returns no row, as does the read of an
\* identifier that does not exist.
C8_UnreadableIsNotFound ==
    \A p \in Users :
        /\ \A T \in Variants(p) :
              /\ SelectComplaints(p, T) = SelectComplaints(p, complaints)
              /\ \A id \in DOMAIN complaints \cup {NextId} :
                    ReadComplaint(p, id, T) = ReadComplaint(p, id, complaints)
        /\ \A id \in DOMAIN complaints \cup {NextId} :
              (id \in DOMAIN complaints => Hidden(p, complaints[id]))
                 => ReadComplaint(p, id, complaints) = ReadComplaint(p, NextId, complaints)

\* C8 witness: the student u1 reads a complaint that exists and is owned by another
\* principal, and gets no row.
C8_Witness ==
    \E i \in DOMAIN complaints :
        /\ complaints[i].student_id # "u1"
        /\ Hidden("u1", complaints[i])
        /\ <<"u1", "student">> \in user_roles
        /\ ReadComplaint("u1", i, complaints) = {}

\* C9: the status, the assignment and the resolution timestamp of a complaint are
\* changed only by a statement of the staff member assigned to it or of an admin.
C9_StatusOnlyByAssignedStaffOrAdmin ==
    [][ \A i \in DOMAIN complaints :
          ( \/ complaints'[i].status # complaints[i].status
            \/ complaints'[i].staff_assigned # complaints[i].staff_assigned
            \/ complaints'[i].resolved_at # complaints[i].resolved_at )
          => ( \/ ( /\ <<resp'.by, "staff">> \in user_roles
                    /\ complaints[i].staff_assigned = resp'.by )
               \/ <<resp'.by, "admin">> \in user_roles ) ]_vars

\* C10: every change of a complaint's status is submitted -> in_progress,
\* in_progress -> resolved or submitted -> resolved; resolved is terminal.
C10_StatusTransitions ==
    [][ \A i \in DOMAIN complaints :
          complaints'[i].status # complaints[i].status
          => <<complaints[i].status, complaints'[i].status>> \in
                { <<"submitted", "in_progress">>,
                  <<"in_progress", "resolved">>,
                  <<"submitted", "resolved">> } ]_vars

\* C11: of the statements that resolve one complaint on concurrent connections, one
\* is applied; a statement that moves a complaint to resolved and finds it resolved
\* already answers that it did not apply and leaves the complaint unchanged.
C11_OneResolutionCommits ==
    [][ \A s \in Sessions :
          ( /\ txn[s].pc = "update"
            /\ txn'[s].pc = "idle"
            /\ complaints[txn[s].id].status = "resolved" )
          => ( complaints' = complaints /\ resp'.outcome # "ok" ) ]_vars

\* C12: a complaint whose status is not the status it was created with, or that has
\* a withdrawal timestamp, has a timeline entry other than its creation entry.
C12_MutationHasTimelineEntry ==
    \A i \in DOMAIN complaints :
        (complaints[i].status # "submitted" \/ complaints[i].withdrawn_at # Null)
        => \E k \in DOMAIN complaint_timeline :
              /\ complaint_timeline[k].complaint_id = i
              /\ complaint_timeline[k].message # "Complaint submitted"

\* C13: a complaint has a resolution timestamp exactly when its status is resolved.
C13_ResolvedIffStamped ==
    \A i \in DOMAIN complaints :
        (complaints[i].status = "resolved") <=> (complaints[i].resolved_at # Null)

\* C14: every change of a locker's reveal status is not_revealed -> requested or
\* requested -> revealed: no status is skipped and none is moved back.
C14_RevealMonotonic ==
    [][ \A c \in DOMAIN identity_lockers :
          identity_lockers'[c].reveal_status # identity_lockers[c].reveal_status
          => <<identity_lockers[c].reveal_status, identity_lockers'[c].reveal_status>> \in
                { <<"not_revealed", "requested">>, <<"requested", "revealed">> } ]_vars

\* the locker the trigger of an anonymous submission by uid writes for complaint n
Vaulted(n, uid) ==
    [ complaint_id        |-> n,
      real_student_id     |-> uid,
      reveal_status       |-> "not_revealed",
      reveal_requested_by |-> Null,
      revealed_at         |-> Null ]

\* C15: a principal without the admin role reads no identity locker, whatever other
\* roles it holds and whether or not it owns the complaint or is its assigned staff;
\* and every step that changes the lockers is a statement of an admin, or the commit
\* of an anonymous submission, which adds the locker of the new complaint with its
\* submitter and changes no other locker.
C15_LockersAdminOnly ==
    /\ [](\A p \in Users : <<p, "admin">> \notin user_roles => SelectLockers(p) = {})
    /\ [][ identity_lockers' # identity_lockers
            => \/ <<resp'.by, "admin">> \in user_roles
               \/ \E n \in DOMAIN complaints' \ DOMAIN complaints :
                     /\ complaints'[n].is_anonymous
                     /\ complaints'[n].student_id = resp'.by
                     /\ identity_lockers' = identity_lockers @@ (n :> Vaulted(n, resp'.by)) ]_vars

\* C15 witness: an anonymous complaint of u1 with its locker, assigned to u2, who
\* holds the staff and student roles and not the admin role; u2 reads no locker and
\* its INSERT into identity_lockers was refused.
C15_Witness ==
    /\ resp = Response("u2", "RlsViolation")
    /\ {<<"u2", "staff">>, <<"u2", "student">>} \subseteq user_roles
    /\ <<"u2", "admin">> \notin user_roles
    /\ SelectLockers("u2") = {}
    /\ \E i \in DOMAIN identity_lockers :
          /\ complaints[i].is_anonymous
          /\ complaints[i].student_id = "u1"
          /\ complaints[i].staff_assigned = "u2"
          /\ identity_lockers[i] = Vaulted(i, "u1")

\* C16: the withdrawal timestamp of a complaint changes only by a statement of the
\* complaint's owner, on a complaint that is not resolved and not withdrawn.
C16_WithdrawOnlyByOwnerWhileOpen ==
    [][ \A i \in DOMAIN complaints :
          complaints'[i].withdrawn_at # complaints[i].withdrawn_at
          => ( /\ resp'.by = complaints[i].student_id
               /\ complaints[i].status # "resolved"
               /\ complaints[i].withdrawn_at = Null ) ]_vars

\* C17: a complaint that is not resolved has no rating, and the rating of a
\* complaint changes only by a statement of its owner, on a resolved complaint that
\* has no rating yet.
C17_RatingOnceByOwnerWhenResolved ==
    /\ [](\A i \in DOMAIN complaints :
            complaints[i].rating # NullRating => complaints[i].status = "resolved")
    /\ [][ \A i \in DOMAIN complaints :
            complaints'[i].rating # complaints[i].rating
            => ( /\ resp'.by = complaints[i].student_id
                 /\ complaints[i].status = "resolved"
                 /\ complaints[i].rating = NullRating ) ]_vars

Decisions ==
    [ p \in Users |->
        [ select   |-> SelectComplaints(p, complaints),
          insert   |-> { <<u, InsertOutcome(p, handleSubmit(u, FALSE))>> : u \in Users },
          update   |-> { <<i, k, v, UpdateOutcome(p, i, [ x \in {k} |-> v ])>> :
                           i \in DOMAIN complaints,
                           k \in {"student_id", "staff_assigned"}, v \in Users },
          timeline |-> { <<i, TimelineInsertCheck(p, TransitionEntry(p, i))>> :
                           i \in DOMAIN complaints },
          lockers  |-> <<SelectLockers(p), AdminCanManageIdentityLockers(p)>>,
          locker_insert |-> { <<c, InsertLockerOutcome(p, c)>> : c \in DOMAIN complaints },
          roles    |-> { <<u, r, UsersCanViewTheirOwnRoles(p, <<u, r>>),
                           InsertRoleOutcome(p, u, r)>> : u \in Users, r \in user_role } ] ]

\* C19: a step that changes a profile changes no other table and no decision: every
\* read and every write of every principal has the same outcome before and after.
C19_ProfileGrantsNothing ==
    [][ profiles' # profiles
          => /\ Decisions' = Decisions
             /\ UNCHANGED <<user_roles, complaints, complaint_timeline, identity_lockers>> ]_vars

\* C19 witness: the student u1 has written the name admin in its own profile; it
\* still selects no row of a complaint of another principal, no locker, and its
\* INSERT into user_roles and its UPDATE of that complaint are refused.
C19_Witness ==
    /\ profiles["u1"].name = "admin"
    /\ resp = Response("u1", "ok")
    /\ InsertRoleOutcome("u1", "u1", "admin") = "RlsViolation"
    /\ SelectLockers("u1") = {}
    /\ \E i \in DOMAIN complaints :
          /\ complaints[i].student_id = "u2"
          /\ ReadComplaint("u1", i, complaints) = {}
          /\ UpdateOutcome("u1", i, [ staff_assigned |-> "u1" ]) = "NoRows"

\* C20: a complaint is committed only for a caller that holds the student role.
C20_SubmitRequiresStudentRole ==
    [][ DOMAIN complaints' # DOMAIN complaints
          => <<resp'.by, "student">> \in user_roles ]_vars

\* C21: the timeline is append-only.  Every step keeps every entry at its place with
\* its complaint, author and message; a step that changes the timeline is the commit
\* of a submission, which appends the creation entry of the new complaint.
C21_TimelineAppendOnly ==
    [][ /\ \A k \in DOMAIN complaint_timeline :
              /\ k \in DOMAIN complaint_timeline'
              /\ complaint_timeline'[k] = complaint_timeline[k]
        /\ complaint_timeline' # complaint_timeline
              => \E n \in DOMAIN complaints' \ DOMAIN complaints :
                    complaint_timeline' =
                       Append(complaint_timeline,
                              [ complaint_id |-> n,
                                updated_by   |-> complaints'[n].student_id,
                                message      |-> "Complaint submitted" ]) ]_vars

\* C21 witness: three complaints with their three creation entries, in order, one of
\* the complaints resolved; the last statement, of the admin u3, found no row (every
\* complaint exists and the admin may update each: the statement was a delete, or an
\* update or delete of a timeline entry).
C21_Witness ==
    /\ resp = Response("u3", "NoRows")
    /\ DOMAIN complaints = 1 .. 3
    /\ Len(complaint_timeline) = 3
    /\ \A k \in 1 .. 3 :
          complaint_timeline[k] = [ complaint_id |-> k,
                                    updated_by   |-> complaints[k].student_id,
                                    message      |-> "Complaint submitted" ]
    /\ \E i \in DOMAIN complaints : complaints[i].status = "resolved"

\* C22: the statement of an admin that grants a role answers success, also when the
\* pair is assigned already, and then leaves the role assignments unchanged.
C22_DuplicateGrantIsNoOp ==
    [][ (resp' # resp /\ <<resp'.by, "admin">> \in user_roles)
          => resp'.outcome \in {"ok", "NoRows"} ]_vars

\* C24: every list the query can answer for a principal holds each complaint the
\* principal owns once, withdrawn and resolved ones included, and no other complaint,
\* and no complaint of the list comes before one created later (complaints created at
\* the same time come in either order).
C24_ListMineExactAndOrdered ==
    \A p \in Users :
        /\ fetchComplaints(p, p) # {}
        /\ \A list \in fetchComplaints(p, p) :
              /\ { list[k] : k \in DOMAIN list } =
                    { complaints[i] : i \in { j \in DOMAIN complaints : complaints[j].student_id = p } }
              /\ Len(list) = TotalOf(p)
              /\ \A k \in DOMAIN list, m \in DOMAIN list :
                    k < m => list[k].created_at >= list[m].created_at

\* C24 witness: u1 owns two complaints, both withdrawn or resolved, of which the one
\* committed first was created later, and u2 owns a third; the list of u1 is the two
\* complaints of u1, the one created later first, and the list of u2 is the
\* complaint of u2.
C24_Witness ==
    /\ DOMAIN complaints = 1 .. 3
    /\ complaints[1].student_id = "u1"
    /\ complaints[2].student_id = "u1"
    /\ complaints[3].student_id = "u2"
    /\ complaints[1].withdrawn_at # Null
    /\ complaints[2].status = "resolved"
    /\ complaints[1].created_at > complaints[2].created_at
    /\ fetchComplaints("u1", "u1") = { <<complaints[1], complaints[2]>> }
    /\ fetchComplaints("u2", "u2") = { <<complaints[3]>> }

\* C25: a complaint, in the step that creates it, has status submitted, no assigned
\* staff, no rating, no resolution timestamp and no withdrawal timestamp.
C25_CreatedAsSubmitted ==
    [][ \A n \in DOMAIN complaints' \ DOMAIN complaints :
          /\ complaints'[n].status = "submitted"
          /\ complaints'[n].staff_assigned = Null
          /\ complaints'[n].rating = NullRating
          /\ complaints'[n].resolved_at = Null
          /\ complaints'[n].withdrawn_at = Null ]_vars

\* C26: a complaint that has a withdrawal timestamp keeps one in every later state.
C26_WithdrawalPermanent ==
    [][ \A i \in DOMAIN complaints :
          complaints[i].withdrawn_at # Null => complaints'[i].withdrawn_at # Null ]_vars

\* C27: the owner of a complaint is changed only by a statement of an admin, and a
\* complaint is created with its creator as owner.
C27_OwnerFixedForNonAdmins ==
    [][ /\ \A i \in DOMAIN complaints :
              complaints'[i].student_id # complaints[i].student_id
              => <<resp'.by, "admin">> \in user_roles
        /\ \A n \in DOMAIN complaints' \ DOMAIN complaints :
              complaints'[n].student_id = resp'.by ]_vars

\* C28: the assigned staff of a complaint is set or changed only by a statement of
\* an admin.
C28_AssignmentOnlyByAdmin ==
    [][ \A i \in DOMAIN complaints :
          complaints'[i].staff_assigned # complaints[i].staff_assigned
          => <<resp'.by, "admin">> \in user_roles ]_vars

====
